---- MODULE Spec2Model ----
(***************************************************************************)
(* Key-Lens: the decoration engine and the dictionary loader.              *)
(*                                                                         *)
(* Two engines live in the repository and both are modelled:               *)
(*   variant = "ext"   src/src/extension.ts   (hiddenLines set, toggle,    *)
(*                     filePatterns, synchronous load, 3000ms expiry timer)*)
(*   variant = "prov"  src/unnamed/part_001   (single hiddenLine, enable / *)
(*                     disable, extensions, load that awaits glob)         *)
(*                                                                         *)
(* Strings are sequences of one-character strings, so that the scan, the   *)
(* escaping and the flattening are computed on characters.                 *)
(***************************************************************************)
EXTENDS Integers, Sequences, FiniteSets, TLC

VARIABLES
  variant,            \* which engine runs: "ext" or "prov"
  activated,          \* activate() has run
  fs,                 \* the workspace on disk (index into FsPool)
  text,               \* text[e]: the document text of visible editor e
  activeTextEditor,   \* vscode.window.activeTextEditor: an editor, or NoEditor
  rendered,           \* rendered[e]: what setDecorations last put on editor e
  keyValueMap,        \* KeyLensProvider.keyValueMap
  config,             \* KeyLensProvider.config
  isEnabled,          \* KeyLensProvider.isEnabled
  activeDecorations,  \* KeyLensProvider.activeDecorations
  hiddenLines,        \* KeyLensProvider.hiddenLines  (ext)
  hiddenLine,         \* KeyLensProvider.hiddenLine   (prov): {} is undefined
  timers,             \* pending setTimeout callbacks, in firing order (ext)
  loads,              \* loadKeyValueMappings calls suspended at await glob (prov)
  notification,       \* the message the last step showed to the user
  last,               \* history: the handler that ran last, and its inputs
  env,                \* history: the changes of the files and of the editors so far
  track,              \* history: which of snap and run is kept ("none": neither)
  snap,               \* history: the engine at the last disable / toggle-off
  run,                \* history: refreshes started since the engine was idle
  disposed,           \* dispose() has run: the subscriptions are released
  input,              \* the argument of a function applied on its own
  output              \* what the function returned for input

vars == <<variant, activated, fs, text, activeTextEditor, rendered, keyValueMap,
          config, isEnabled, activeDecorations, hiddenLines, hiddenLine, timers,
          loads, notification, last, env, track, snap, run, disposed, input,
          output>>

-----------------------------------------------------------------------------
(* Bounds of the model *)

\* loadKeyValueMappings calls that may be suspended at once (prov)
MaxLoads == 2
\* expiry timers that may be pending at once (ext)
MaxTimers == 2
\* changes of the environment in one run: the files on disk change, a
\* document is edited, the other editor becomes the active one
MaxEvents == 1

-----------------------------------------------------------------------------
(* Characters and positions *)

NL == "\n"
\* the backtick character, which a TLA+ string cannot hold
Backtick == "BACKTICK"
\* the character class of the scan's pattern: single quote, double quote, backtick
Quotes == {"'", "\"", Backtick}

\* TextDocument.positionAt(offset): <<line, character>>, both from 0
RECURSIVE LineStart(_, _)
LineStart(t, off) ==
  IF off = 0 THEN 0
  ELSE IF t[off] = NL THEN off
  ELSE LineStart(t, off - 1)

RECURSIVE LineCount(_, _)
LineCount(t, off) ==
  IF off = 0 THEN 0
  ELSE LineCount(t, off - 1) + (IF t[off] = NL THEN 1 ELSE 0)

positionAt(t, off) == <<LineCount(t, off), off - LineStart(t, off)>>

PosLeq(p, q) == p[1] < q[1] \/ (p[1] = q[1] /\ p[2] <= q[2])

\* vscode.Range.contains(position): both ends inclusive
contains(range, pos) == PosLeq(range[1], pos) /\ PosLeq(pos, range[2])

-----------------------------------------------------------------------------
(* The scan's regular expression *)

\* the characters of the class [.*+?^${}()|[\]\\] that escapeRegExp escapes
RegExpSpecial ==
  {".", "*", "+", "?", "^", "$", "{", "}", "(", ")", "|", "[", "]", "\\"}

\* an escapeRegExp that escapes nothing
escapeNothing(s) == s

\* escapeRegExp(string): a backslash before every special character
RECURSIVE escapeRegExp(_)
escapeRegExp(s) ==
  IF s = <<>> THEN <<>>
  ELSE (IF Head(s) \in RegExpSpecial THEN <<"\\", Head(s)>> ELSE <<Head(s)>>)
       \o escapeRegExp(Tail(s))

\* new RegExp(source) for a source with no quantifier or group: one atom per
\* character to match; a backslash makes the next character literal, a bare
\* dot matches any character but a line terminator
RECURSIVE RegExpAtoms(_)
RegExpAtoms(src) ==
  IF src = <<>> THEN <<>>
  ELSE IF Head(src) = "\\" /\ Len(src) >= 2
    THEN <<[any |-> FALSE, ch |-> src[2]]>> \o RegExpAtoms(Tail(Tail(src)))
  ELSE IF Head(src) = "."
    THEN <<[any |-> TRUE, ch |-> "."]>> \o RegExpAtoms(Tail(src))
  ELSE <<[any |-> FALSE, ch |-> Head(src)]>> \o RegExpAtoms(Tail(src))

AtomMatches(a, c) == IF a.any THEN c # NL ELSE c = a.ch

\* the pattern: a quote, the atoms, the same quote (\1); matches t at offset off (from 0)
MatchAt(t, atoms, off) ==
  LET n == Len(atoms) IN
    /\ off + n + 2 <= Len(t)
    /\ t[off + 1] \in Quotes
    /\ \A i \in 1..n : AtomMatches(atoms[i], t[off + 1 + i])
    /\ t[off + n + 2] = t[off + 1]

\* a single regex.exec(text): the first match from lastIndex on, no other
ExecOnce(t, atoms, lastIndex) ==
  LET hits == {off \in lastIndex..Len(t) : MatchAt(t, atoms, off)} IN
    IF hits = {} THEN {}
    ELSE {CHOOSE h \in hits : \A g \in hits : h <= g}

\* the loop while ((match = regex.exec(text)) !== null) of a global regex:
\* the offsets of the matches found from lastIndex on, each search starting
\* where the match before it ended
RECURSIVE ExecAll(_, _, _)
ExecAll(t, atoms, lastIndex) ==
  LET hits == {off \in lastIndex..Len(t) : MatchAt(t, atoms, off)} IN
    IF hits = {} THEN {}
    ELSE LET off == CHOOSE h \in hits : \A g \in hits : h <= g IN
           {off} \cup ExecAll(t, atoms, off + Len(atoms) + 2)

\* the decoration updateDecorations builds for the match of key at offset off
Decoration(t, kvm, key, off) ==
  [range |-> <<positionAt(t, off), positionAt(t, off + Len(key) + 2)>>,
   contentText |-> kvm[key]]

\* const lineNumber = startPos.line
LineOf(decoration) == decoration.range[1][1]

\* the two loops of updateDecorations without the test of the hidden lines:
\* every match of every key
Matches(t, kvm) ==
  UNION { { Decoration(t, kvm, key, off) :
              off \in ExecAll(t, RegExpAtoms(escapeRegExp(key)), 0) }
          : key \in DOMAIN kvm }

\* the body of updateDecorations below its early returns: a match whose line
\* is hidden is skipped (continue), every other one is pushed
Scan(t, kvm, hidden) == {d \in Matches(t, kvm) : LineOf(d) \notin hidden}

-----------------------------------------------------------------------------
(* JSON values and flattenObject *)

\* what JSON.parse returns: t is the kind, s the characters of a string or
\* of a number's String(), el the elements of an array, kv the members of an
\* object in their order
JNull == [t |-> "null", s |-> <<>>, el |-> <<>>, kv |-> <<>>]
JNum(s) == [t |-> "num", s |-> s, el |-> <<>>, kv |-> <<>>]
JStr(s) == [t |-> "str", s |-> s, el |-> <<>>, kv |-> <<>>]
JArr(el) == [t |-> "arr", s |-> <<>>, el |-> el, kv |-> <<>>]
JObj(kv) == [t |-> "obj", s |-> <<>>, el |-> <<>>, kv |-> kv]

Digits == <<"0", "1", "2", "3", "4", "5", "6", "7", "8", "9">>
IndexKey(i) == <<Digits[i + 1]>>

\* String(value) of a leaf: Array.prototype.toString joins the elements with
\* commas, null elements as the empty string
RECURSIVE String(_)
RECURSIVE JoinFrom(_, _)
JoinFrom(el, i) ==
  IF i > Len(el) THEN <<>>
  ELSE (IF i > 1 THEN <<",">> ELSE <<>>)
       \o (IF el[i].t = "null" THEN <<>> ELSE String(el[i]))
       \o JoinFrom(el, i + 1)
String(v) ==
  CASE v.t = "null" -> <<"n", "u", "l", "l">>
    [] v.t = "arr" -> JoinFrom(v.el, 1)
    [] v.t = "obj" -> <<"[object Object]">>
    [] OTHER -> v.s

\* the own enumerable properties for (const key in obj) visits: the members
\* of an object, the indices of an array or of a string, nothing otherwise
Entries(v) ==
  CASE v.t = "obj" -> v.kv
    [] v.t = "arr" -> [i \in 1..Len(v.el) |-> <<IndexKey(i - 1), v.el[i]>>]
    [] v.t = "str" -> [i \in 1..Len(v.s) |-> <<IndexKey(i - 1), JStr(<<v.s[i]>>)>>]
    [] OTHER -> <<>>

\* result[k] = v on a KeyValueMap
Put(result, k, v) ==
  [x \in DOMAIN result \cup {k} |-> IF x = k THEN v ELSE result[x]]

EmptyMap == [x \in {} |-> <<>>]

\* the loop of flattenObject from entry i on
RECURSIVE FlattenFrom(_, _, _, _)
FlattenFrom(entries, i, prefix, result) ==
  IF i > Len(entries) THEN result
  ELSE LET key == entries[i][1]
           val == entries[i][2]
           newKey == IF prefix # <<>> THEN prefix \o <<".">> \o key ELSE key
       IN FlattenFrom(entries, i + 1, prefix,
            IF val.t = "obj"
              THEN FlattenFrom(Entries(val), 1, newKey, result)
              ELSE Put(result, newKey, String(val)))

flattenObject(obj, prefix, result) == FlattenFrom(Entries(obj), 1, prefix, result)

-----------------------------------------------------------------------------
(* The workspace on disk *)

\* a file: absent, present but not JSON, or present with the value it parses to
Absent == [k |-> "absent", v |-> JNull]
BadJson == [k |-> "bad", v |-> JNull]
Json(v) == [k |-> "json", v |-> v]

\* an optional array field of keylens.config.json
NotSet == [set |-> FALSE, items |-> <<>>]
Items(items) == [set |-> TRUE, items |-> items]

\* what keylens.config.json parses to: null, or a KeyLensConfig
NullConfig ==
  [null |-> TRUE, paths |-> <<>>, filePatterns |-> NotSet, extensions |-> NotSet]
Config(paths, filePatterns, extensions) ==
  [null |-> FALSE, paths |-> paths, filePatterns |-> filePatterns,
   extensions |-> extensions]
AbsentConfig == [k |-> "absent", v |-> NullConfig]
BadConfig == [k |-> "bad", v |-> NullConfig]
ConfigFile(c) == [k |-> "json", v |-> c]

Workspace(folder, cfg, f1, f2) ==
  [folder |-> folder, config |-> cfg, files |-> [f1 |-> f1, f2 |-> f2]]

FileNames == <<"f1", "f2">>

\* { "a": 1, "c": 1 }
FileAC == Json(JObj(<< <<<<"a">>, JNum(<<"1">>)>>, <<<<"c">>, JNum(<<"1">>)>> >>))
\* { "c": 2, "d": 2 }
FileCD == Json(JObj(<< <<<<"c">>, JNum(<<"2">>)>>, <<<<"d">>, JNum(<<"2">>)>> >>))
\* { "a": { "b": [1, 2] } }
FileNested ==
  Json(JObj(<< <<<<"a">>,
                 JObj(<< <<<<"b">>, JArr(<<JNum(<<"1">>), JNum(<<"2">>)>>)>> >>)>> >>))

BothPaths == Config(<<"f1", "f2">>, NotSet, NotSet)
OnlyTs ==
  Config(<<"f1">>, Items(<< <<"*", ".", "t", "s">> >>), Items(<< <<"t", "s">> >>))
OnePattern == Config(<<"f*">>, NotSet, NotSet)

\* the workspaces the model moves between
FsPool == <<
  Workspace(TRUE, ConfigFile(BothPaths), FileAC, FileCD),
  Workspace(TRUE, AbsentConfig, FileAC, FileCD),
  Workspace(TRUE, ConfigFile(BothPaths), BadJson, FileCD),
  Workspace(TRUE, ConfigFile(OnlyTs), FileAC, FileCD)
>>

Disk == FsPool[fs]

\* fs.existsSync(fullPath) for a path of the configuration: ext joins the
\* path to the folder verbatim, so only a file's own name names it
existsSync(disk, path) ==
  /\ path \in {FileNames[i] : i \in 1..Len(FileNames)}
  /\ disk.files[path].k # "absent"

\* glob(pathPattern, {cwd, absolute, nodir}): the existing files the pattern
\* matches, in name order; the pattern is a file's name or the wildcard f*
RECURSIVE GlobFrom(_, _, _)
GlobFrom(disk, pattern, i) ==
  IF i > Len(FileNames) THEN <<>>
  ELSE (IF (pattern = FileNames[i] \/ pattern = "f*")
           /\ disk.files[FileNames[i]].k # "absent"
          THEN <<FileNames[i]>> ELSE <<>>)
       \o GlobFrom(disk, pattern, i + 1)
glob(disk, pattern) == GlobFrom(disk, pattern, 1)

\* the body of the loop over the files: existsSync, readFileSync, JSON.parse
\* and flattenObject inside the inner try, whose catch only logs
ReadInto(disk, path, result) ==
  IF ~existsSync(disk, path) THEN result
  ELSE IF disk.files[path].k = "bad" THEN result
  ELSE flattenObject(disk.files[path].v, <<>>, result)

RECURSIVE ReadAllInto(_, _, _, _)
ReadAllInto(disk, paths, i, result) ==
  IF i > Len(paths) THEN result
  ELSE ReadAllInto(disk, paths, i + 1, ReadInto(disk, paths[i], result))

-----------------------------------------------------------------------------
(* The editors *)

Editors == {"e1", "e2"}
\* vscode.window.activeTextEditor is undefined
NoEditor == "none"

\* editor.document.fileName
fileName ==
  [e \in Editors |->
     IF e = "e1" THEN <<"/", "w", "/", "a", ".", "t", "s">>
     ELSE <<"/", "w", "/", "b", ".", "j", "s">>]

\* the documents the editors show:   'a'     and   'a'
\*                                   "a"
Texts == {
  <<"'", "a", "'", NL, "\"", "a", "\"">>,
  <<"'", "a", "'">>
}
InitialText == <<"'", "a", "'", NL, "\"", "a", "\"">>

\* the positions of a document: one per offset
Positions(t) == {positionAt(t, off) : off \in 0..Len(t)}

\* the index of the last occurrence of c in s, 0 if there is none
RECURSIVE LastIndexOf(_, _, _)
LastIndexOf(s, c, i) ==
  IF i = 0 THEN 0 ELSE IF s[i] = c THEN i ELSE LastIndexOf(s, c, i - 1)

\* path.basename(p)
basename(p) == SubSeq(p, LastIndexOf(p, "/", Len(p)) + 1, Len(p))

\* path.extname(name).slice(1): from the last dot on, nothing when there is
\* no dot or the only dot leads the name
extname(name) ==
  LET dot == LastIndexOf(name, ".", Len(name)) IN
    IF dot <= 1 THEN <<>> ELSE SubSeq(name, dot + 1, Len(name))

\* pattern.replace(/\*/g, ".*")
RECURSIVE replaceStar(_)
replaceStar(p) ==
  IF p = <<>> THEN <<>>
  ELSE (IF Head(p) = "*" THEN <<".", "*">> ELSE <<Head(p)>>) \o replaceStar(Tail(p))

\* the source src matches s from index j on, src read from index i on: a
\* character followed by * repeats, a dot is any character
RECURSIVE MatchHere(_, _, _, _)
MatchHere(src, i, s, j) ==
  IF i > Len(src) THEN TRUE
  ELSE IF i < Len(src) /\ src[i + 1] = "*"
    THEN \/ MatchHere(src, i + 2, s, j)
         \/ /\ j <= Len(s)
            /\ (src[i] = "." \/ src[i] = s[j])
            /\ MatchHere(src, i, s, j + 1)
  ELSE /\ j <= Len(s)
       /\ (src[i] = "." \/ src[i] = s[j])
       /\ MatchHere(src, i + 1, s, j + 1)

\* new RegExp(src).test(s): a match anywhere in s
RegExpTest(src, s) == \E j \in 1..(Len(s) + 1) : MatchHere(src, 1, s, j)

\* shouldApplyToFile(fileName) of extension.ts
shouldApplyToFileExt(cfg, name) ==
  IF cfg.null \/ ~cfg.filePatterns.set THEN TRUE
  ELSE \E i \in 1..Len(cfg.filePatterns.items) :
         RegExpTest(replaceStar(cfg.filePatterns.items[i]), name)

\* shouldApplyToFile(fileName) of the provider
shouldApplyToFileProv(cfg, name) ==
  IF cfg.null \/ ~cfg.extensions.set THEN TRUE
  ELSE \E i \in 1..Len(cfg.extensions.items) :
         extname(name) = cfg.extensions.items[i]

shouldApplyToFile(v, cfg, name) ==
  IF v = "ext" THEN shouldApplyToFileExt(cfg, name)
  ELSE shouldApplyToFileProv(cfg, name)

\* isKeyMappingLoaded()
isKeyMappingLoaded(kvm) == DOMAIN kvm # {}

\* updateDecorations runs past its early returns for editor e
Scans(v, e, enabled, kvm, cfg) ==
  /\ enabled
  /\ e # NoEditor
  /\ v = "prov" => isKeyMappingLoaded(kvm)
  /\ shouldApplyToFile(v, cfg, basename(fileName[e]))

\* an updateDecorations that computes the placements and never hands them to
\* editor.setDecorations
updateDecorationsUnrendered(v, e, enabled, kvm, cfg, hidden, txt, act, rend) ==
  IF Scans(v, e, enabled, kvm, cfg)
    THEN [activeDecorations |-> Scan(txt[e], kvm, hidden), rendered |-> rend]
    ELSE [activeDecorations |-> act, rendered |-> rend]

\* updateDecorations(editor): what it leaves in activeDecorations and on the
\* editors, given the fields as the caller left them
updateDecorations(v, e, enabled, kvm, cfg, hidden, txt, act, rend) ==
  IF Scans(v, e, enabled, kvm, cfg)
    THEN LET decorations == Scan(txt[e], kvm, hidden) IN
           [activeDecorations |-> decorations,
            rendered |-> [rend EXCEPT ![e] = decorations]]
    ELSE [activeDecorations |-> act, rendered |-> rend]

\* history: the inner catch ran for one of these paths
AnyBad(disk, paths) ==
  \E i \in 1..Len(paths) :
    existsSync(disk, paths[i]) /\ disk.files[paths[i]].k = "bad"

-----------------------------------------------------------------------------
(* loadKeyValueMappings *)

\* a load that keeps the dictionary it finds
KeepMap(kvm) == kvm

\* this.keyValueMap = {}
ResetMap(kvm) == EmptyMap

\* loadKeyValueMappings down to its loop: the configuration it leaves in
\* this.config, the paths the loop will visit, and (history) whether the
\* outer catch ran. A missing or unparsable file throws before this.config
\* is assigned, so the field keeps what it held.
loadBegin(disk, cfg) ==
  IF ~disk.folder THEN [config |-> cfg, todo |-> <<>>, failed |-> FALSE]
  ELSE IF disk.config.k # "json" THEN [config |-> cfg, todo |-> <<>>, failed |-> TRUE]
  ELSE IF disk.config.v.null
    THEN [config |-> disk.config.v, todo |-> <<>>, failed |-> FALSE]
  ELSE [config |-> disk.config.v, todo |-> disk.config.v.paths, failed |-> FALSE]

\* loadKeyValueMappings of extension.ts, which never awaits: the fields it leaves
loadKeyValueMappingsExt(disk, kvm, cfg) ==
  LET b == loadBegin(disk, cfg) IN
    [keyValueMap |-> ReadAllInto(disk, b.todo, 1, ResetMap(kvm)),
     config |-> b.config,
     failed |-> b.failed \/ AnyBad(disk, b.todo)]

\* a call of the provider's loadKeyValueMappings suspended at await glob:
\* the patterns its loop has yet to visit, whether refresh made the call,
\* and (history) how many times the files had changed when it was made
Suspended(todo, refresh) ==
  [todo |-> todo, refresh |-> refresh, era |-> env.files]

RemoveAt(seq, i) == SubSeq(seq, 1, i - 1) \o SubSeq(seq, i + 1, Len(seq))

-----------------------------------------------------------------------------
(* History *)

Hist(op) ==
  [op |-> op, done |-> FALSE, refresh |-> FALSE, failed |-> FALSE,
   fresh |-> FALSE, hit |-> FALSE, line |-> 0, same |-> FALSE]

\* the suppression state of the running engine
Hidden == IF variant = "ext" THEN hiddenLines ELSE hiddenLine

NoSnap == [on |-> FALSE, same |-> FALSE, P |-> {}, hid |-> {}]
NoRun == [n |-> 0, overlap |-> FALSE, before |-> [e \in Editors |-> {}]]

\* snap after a step that turns the engine off (off) or on (~off)
SnapAfter(off) ==
  IF track # "snap" THEN snap
  ELSE IF ~off THEN NoSnap
  ELSE IF ~isEnabled \/ activeTextEditor = NoEditor THEN snap
  ELSE [on |-> TRUE, same |-> TRUE, P |-> rendered[activeTextEditor],
        hid |-> Hidden]

\* snap after a step that turns the engine neither on nor off: whether the
\* active editor, its text, the dictionary and the configuration are still
\* what the last disable left
SnapKept ==
  IF /\ track = "snap"
     /\ snap.on
     /\ \/ activeTextEditor' # activeTextEditor
        \/ text'[activeTextEditor] # text[activeTextEditor]
        \/ keyValueMap' # keyValueMap
        \/ config' # config
    THEN [snap EXCEPT !.same = FALSE]
    ELSE snap

\* history: the engine is turned on again with the active editor, its text,
\* the dictionary and the configuration as the last disable left them
SameInputs == snap.on /\ snap.same /\ ~isEnabled

\* run after refresh() is called
RunAfterRefresh ==
  IF track # "run" THEN run
  ELSE IF run.n = 0
    THEN (IF loads = <<>> /\ timers = <<>>
            THEN [n |-> 1, overlap |-> FALSE, before |-> rendered] ELSE run)
  ELSE [run EXCEPT !.n = 2, !.overlap = @ \/ loads # <<>>]

\* run after any step that is neither refresh() nor the step of a load
RunReset == IF track # "run" THEN run ELSE NoRun

-----------------------------------------------------------------------------
(* The subscriptions of activate *)

\* no function is applied on its own
NoArg == [kind |-> "none"]

\* a command or an event handler pushed to context.subscriptions runs: it is
\* still registered
Subscribed ==
  /\ ~disposed
  /\ UNCHANGED <<disposed, input, output>>

\* a callback of setTimeout or the continuation of an awaited promise runs:
\* no subscription holds it
Deferred == UNCHANGED <<disposed, input, output>>

-----------------------------------------------------------------------------
(* The state after construction *)

InitEngine ==
  /\ variant \in {"ext", "prov"}
  /\ activated = FALSE
  /\ fs \in 1..Len(FsPool)
  /\ text = [e \in Editors |-> InitialText]
  /\ activeTextEditor = "e1"
  /\ rendered = [e \in Editors |-> {}]
  /\ keyValueMap = EmptyMap
  /\ config = NullConfig
  /\ isEnabled = TRUE
  /\ activeDecorations = {}
  /\ hiddenLines = {}
  /\ hiddenLine = {}
  /\ timers = <<>>
  /\ loads = <<>>
  /\ notification = "none"
  /\ last = Hist("new")
  /\ env = [files |-> 0, editors |-> 0]
  /\ snap = NoSnap
  /\ run = NoRun
  /\ disposed = FALSE
  /\ input = NoArg
  /\ output = NoArg

Init == InitEngine /\ track = "none"
\* the same program, with the history of the last disable kept
InitSnap == InitEngine /\ track = "snap"
\* the same program, with the history of the refreshes kept
InitRun == InitEngine /\ track = "run"

-----------------------------------------------------------------------------
(* activate *)

\* activate() of extension.ts: the load, not waited for but never suspended,
\* then updateDecorations for the active editor
ActivateExt ==
  /\ Subscribed
  /\ variant = "ext"
  /\ ~activated
  /\ LET l == loadKeyValueMappingsExt(Disk, keyValueMap, config)
         u == updateDecorations(variant, activeTextEditor, isEnabled, l.keyValueMap,
                l.config, hiddenLines, text, activeDecorations, rendered)
     IN /\ keyValueMap' = l.keyValueMap
        /\ config' = l.config
        /\ activeDecorations' = u.activeDecorations
        /\ rendered' = u.rendered
        /\ last' = [Hist("activate") EXCEPT !.done = TRUE, !.failed = l.failed,
                                            !.fresh = TRUE]
  /\ activated' = TRUE
  /\ notification' = "none"
  /\ run' = RunReset
  /\ UNCHANGED <<variant, fs, text, activeTextEditor, isEnabled, hiddenLines,
                 hiddenLine, timers, loads, env, track, snap>>

\* activate() of the provider's shell: loadKeyValueMappings().then(update);
\* the call runs to its first await, or to its end when it never awaits, and
\* then the callback runs before any other event
ActivateProv ==
  /\ Subscribed
  /\ variant = "prov"
  /\ ~activated
  /\ LET b == loadBegin(Disk, config)
         u == updateDecorations(variant, activeTextEditor, isEnabled,
                ResetMap(keyValueMap), b.config, hiddenLine, text,
                activeDecorations, rendered)
     IN /\ keyValueMap' = ResetMap(keyValueMap)
        /\ config' = b.config
        /\ IF b.todo = <<>>
             THEN /\ loads' = loads
                  /\ activeDecorations' = u.activeDecorations
                  /\ rendered' = u.rendered
                  /\ last' = [Hist("activate") EXCEPT !.done = TRUE,
                                !.failed = b.failed, !.fresh = TRUE]
             ELSE /\ loads' = Append(loads, Suspended(b.todo, FALSE))
                  /\ UNCHANGED <<activeDecorations, rendered>>
                  /\ last' = Hist("activate")
  /\ activated' = TRUE
  /\ notification' = "none"
  /\ run' = RunReset
  /\ UNCHANGED <<variant, fs, text, activeTextEditor, isEnabled, hiddenLines,
                 hiddenLine, timers, env, track, snap>>

-----------------------------------------------------------------------------
(* The commands *)

\* toggle() of extension.ts
toggle ==
  /\ Subscribed
  /\ variant = "ext"
  /\ activated
  /\ isEnabled' = ~isEnabled
  /\ LET u == updateDecorations(variant, activeTextEditor, TRUE, keyValueMap,
                config, hiddenLines, text, activeDecorations, rendered)
     IN IF ~isEnabled
          THEN /\ activeDecorations' = u.activeDecorations
               /\ rendered' = u.rendered
          ELSE /\ activeDecorations' = activeDecorations
               /\ rendered' = IF activeTextEditor # NoEditor
                                THEN [rendered EXCEPT ![activeTextEditor] = {}]
                                ELSE rendered
  /\ notification' = IF ~isEnabled THEN "enabled" ELSE "disabled"
  /\ last' = [Hist(IF ~isEnabled THEN "enable" ELSE "disable")
                EXCEPT !.same = SameInputs]
  /\ snap' = SnapAfter(isEnabled)
  /\ run' = RunReset
  /\ UNCHANGED <<variant, activated, fs, text, activeTextEditor, keyValueMap,
                 config, hiddenLines, hiddenLine, timers, loads, env, track>>

\* disable() of the provider
disable ==
  /\ Subscribed
  /\ variant = "prov"
  /\ activated
  /\ isEnabled' = FALSE
  /\ rendered' = IF activeTextEditor # NoEditor
                   THEN [rendered EXCEPT ![activeTextEditor] = {}]
                   ELSE rendered
  /\ notification' = "disabled"
  /\ last' = Hist("disable")
  /\ snap' = SnapAfter(TRUE)
  /\ run' = RunReset
  /\ UNCHANGED <<variant, activated, fs, text, activeTextEditor, keyValueMap,
                 config, activeDecorations, hiddenLines, hiddenLine, timers, loads,
                 env, track>>

\* enable() of the provider
enable ==
  /\ Subscribed
  /\ variant = "prov"
  /\ activated
  /\ isEnabled' = TRUE
  /\ LET u == updateDecorations(variant, activeTextEditor, TRUE, keyValueMap,
                config, hiddenLine, text, activeDecorations, rendered)
     IN /\ activeDecorations' = u.activeDecorations
        /\ rendered' = u.rendered
  /\ notification' = "enabled"
  /\ last' = [Hist("enable") EXCEPT !.same = SameInputs]
  /\ snap' = SnapAfter(FALSE)
  /\ run' = RunReset
  /\ UNCHANGED <<variant, activated, fs, text, activeTextEditor, keyValueMap,
                 config, hiddenLines, hiddenLine, timers, loads, env, track>>

\* refresh() of extension.ts: the load never suspends, so its callback runs
\* before any other event
refreshExt ==
  /\ Subscribed
  /\ variant = "ext"
  /\ activated
  /\ hiddenLines' = {}
  /\ LET l == loadKeyValueMappingsExt(Disk, keyValueMap, config)
         u == updateDecorations(variant, activeTextEditor, isEnabled, l.keyValueMap,
                l.config, {}, text, activeDecorations, rendered)
     IN /\ keyValueMap' = l.keyValueMap
        /\ config' = l.config
        /\ activeDecorations' = u.activeDecorations
        /\ rendered' = u.rendered
        /\ last' = [Hist("refresh") EXCEPT !.done = TRUE, !.refresh = TRUE,
                                           !.failed = l.failed, !.fresh = TRUE]
  /\ notification' = "refreshed"
  /\ run' = RunAfterRefresh
  /\ UNCHANGED <<variant, activated, fs, text, activeTextEditor, isEnabled,
                 hiddenLine, timers, loads, env, track>>
  /\ snap' = SnapKept

\* refresh() of the provider: the load runs to its first await glob; when it
\* never awaits, its callback runs before any other event
refreshProv ==
  /\ Subscribed
  /\ variant = "prov"
  /\ activated
  /\ Len(loads) < MaxLoads
  /\ hiddenLine' = {}
  /\ LET b == loadBegin(Disk, config)
         u == updateDecorations(variant, activeTextEditor, isEnabled,
                ResetMap(keyValueMap), b.config, {}, text, activeDecorations,
                rendered)
     IN /\ keyValueMap' = ResetMap(keyValueMap)
        /\ config' = b.config
        /\ IF b.todo = <<>>
             THEN /\ loads' = loads
                  /\ activeDecorations' = u.activeDecorations
                  /\ rendered' = u.rendered
                  /\ notification' = "refreshed"
                  /\ last' = [Hist("refresh") EXCEPT !.done = TRUE,
                                !.refresh = TRUE, !.failed = b.failed,
                                !.fresh = TRUE]
             ELSE /\ loads' = Append(loads, Suspended(b.todo, TRUE))
                  /\ UNCHANGED <<activeDecorations, rendered>>
                  /\ notification' = "none"
                  /\ last' = Hist("refresh")
  /\ run' = RunAfterRefresh
  /\ UNCHANGED <<variant, activated, fs, text, activeTextEditor, isEnabled,
                 hiddenLines, timers, env, track>>
  /\ snap' = SnapKept

\* the load loads[i] resumes from await glob: it reads the matched files and
\* awaits the next pattern, or ends, and then its callback runs at once
resumeLoad(i) ==
  /\ Deferred
  /\ variant = "prov"
  /\ i \in 1..Len(loads)
  /\ LET l == loads[i]
         matchedFiles == glob(Disk, Head(l.todo))
         kvm == ReadAllInto(Disk, matchedFiles, 1, keyValueMap)
         u == updateDecorations(variant, activeTextEditor, isEnabled, kvm, config,
                hiddenLine, text, activeDecorations, rendered)
     IN /\ keyValueMap' = kvm
        /\ IF Tail(l.todo) = <<>>
             THEN /\ loads' = RemoveAt(loads, i)
                  /\ activeDecorations' = u.activeDecorations
                  /\ rendered' = u.rendered
                  /\ notification' = IF l.refresh THEN "refreshed" ELSE "none"
                  /\ last' = [Hist("load") EXCEPT !.done = TRUE,
                                !.refresh = l.refresh,
                                !.failed = AnyBad(Disk, matchedFiles),
                                !.fresh = (l.era = env.files)]
             ELSE /\ loads' = [loads EXCEPT ![i].todo = Tail(l.todo)]
                  /\ UNCHANGED <<activeDecorations, rendered>>
                  /\ notification' = "none"
                  /\ last' = Hist("load")
  /\ UNCHANGED <<variant, activated, fs, text, activeTextEditor, config, isEnabled,
                 hiddenLines, hiddenLine, timers, env, track, run>>
  /\ snap' = SnapKept

-----------------------------------------------------------------------------
(* The events *)

\* history of an engine step that is not a refresh: the variables no event
\* handler writes
Frame ==
  /\ notification' = "none"
  /\ run' = RunReset
  /\ UNCHANGED <<variant, activated, fs, keyValueMap, config, isEnabled, loads,
                 track>>
  /\ snap' = SnapKept

\* the handler of onDidChangeActiveTextEditor. Both editors stay open side
\* by side, so one of them is always the active one, and the editor that
\* stops being active keeps what was rendered on it
onDidChangeActiveTextEditor(editor) ==
  /\ Subscribed
  /\ activated
  /\ editor \in Editors
  /\ editor # activeTextEditor
  /\ env.files + env.editors < MaxEvents
  /\ env' = [env EXCEPT !.editors = @ + 1]
  /\ activeTextEditor' = editor
  /\ LET u == updateDecorations(variant, editor, isEnabled, keyValueMap, config,
                Hidden, text, activeDecorations, rendered)
     IN /\ activeDecorations' = u.activeDecorations
        /\ rendered' = u.rendered
  /\ last' = Hist("editor")
  /\ UNCHANGED <<text, hiddenLines, hiddenLine, timers>>
  /\ Frame

\* the handler of onDidChangeTextDocument, for an edit of editor e's document;
\* what is rendered on a document the handler does not rescan stays as it was
onDidChangeTextDocument(e, t) ==
  /\ Subscribed
  /\ activated
  /\ e \in Editors
  /\ t \in Texts
  /\ t # text[e]
  /\ env.files + env.editors < MaxEvents
  /\ env' = [env EXCEPT !.editors = @ + 1]
  /\ text' = [text EXCEPT ![e] = t]
  /\ LET u == updateDecorations(variant, activeTextEditor, isEnabled, keyValueMap,
                config, Hidden, text', activeDecorations, rendered)
     IN IF activeTextEditor = e
          THEN /\ activeDecorations' = u.activeDecorations
               /\ rendered' = u.rendered
          ELSE UNCHANGED <<activeDecorations, rendered>>
  /\ last' = Hist("text")
  /\ UNCHANGED <<activeTextEditor, hiddenLines, hiddenLine, timers>>
  /\ Frame

\* the loop over activeDecorations of the selection handlers
clickedOnDecoration(position) ==
  \E decoration \in activeDecorations : contains(decoration.range, position)

\* a timer that replaces the pending timers of its line
setTimeoutDebounced(pending, line) ==
  Append(SelectSeq(pending, LAMBDA l : l # line), line)

\* setTimeout(() => showDecorationsForLine(clickedLineNumber), 3000): one more
\* pending callback; the handle it returns is dropped, all delays are equal,
\* so the callbacks run in the order they were scheduled
setTimeout(pending, line) == Append(pending, line)

\* a callback that leaves the suppression set alone
showNoLine(hidden, line) == hidden

\* this.hiddenLines.delete(lineNumber) of showDecorationsForLine
showDecorationsForLine(hidden, line) == hidden \ {line}

\* the handler of onDidChangeTextEditorSelection of extension.ts, for a
\* selection of the active editor: hideDecorationsForLine and setTimeout
selectionExt(position) ==
  /\ Subscribed
  /\ variant = "ext"
  /\ activated
  /\ activeTextEditor # NoEditor
  /\ position \in Positions(text[activeTextEditor])
  /\ IF clickedOnDecoration(position)
       THEN /\ Len(timers) < MaxTimers
            /\ hiddenLines' = hiddenLines \cup {position[1]}
            /\ timers' = setTimeout(timers, position[1])
            /\ LET u == updateDecorations(variant, activeTextEditor, isEnabled,
                          keyValueMap, config, hiddenLines', text,
                          activeDecorations, rendered)
               IN /\ activeDecorations' = u.activeDecorations
                  /\ rendered' = u.rendered
       ELSE UNCHANGED <<hiddenLines, timers, activeDecorations, rendered>>
  /\ last' = [Hist("selection") EXCEPT !.hit = clickedOnDecoration(position),
                                       !.line = position[1]]
  /\ UNCHANGED <<text, activeTextEditor, hiddenLine, env>>
  /\ Frame

\* onDidChangeTextEditorSelection of the provider, for a selection of the
\* active editor: hideDecorationsForLine or clearHiddenLines
selectionProv(position) ==
  /\ Subscribed
  /\ variant = "prov"
  /\ activated
  /\ activeTextEditor # NoEditor
  /\ position \in Positions(text[activeTextEditor])
  /\ hiddenLine' = IF clickedOnDecoration(position) THEN {position[1]} ELSE {}
  /\ LET u == updateDecorations(variant, activeTextEditor, isEnabled, keyValueMap,
                config, hiddenLine', text, activeDecorations, rendered)
     IN /\ activeDecorations' = u.activeDecorations
        /\ rendered' = u.rendered
  /\ last' = [Hist("selection") EXCEPT !.hit = clickedOnDecoration(position),
                                       !.line = position[1]]
  /\ UNCHANGED <<text, activeTextEditor, hiddenLines, timers, env>>
  /\ Frame

\* the callback of setTimeout fires: showDecorationsForLine(clickedLineNumber)
timerFires ==
  /\ Deferred
  /\ variant = "ext"
  /\ timers # <<>>
  /\ hiddenLines' = showDecorationsForLine(hiddenLines, Head(timers))
  /\ timers' = Tail(timers)
  /\ LET u == updateDecorations(variant, activeTextEditor, isEnabled, keyValueMap,
                config, hiddenLines', text, activeDecorations, rendered)
     IN /\ activeDecorations' = u.activeDecorations
        /\ rendered' = u.rendered
  /\ last' = [Hist("timer") EXCEPT !.line = Head(timers)]
  /\ UNCHANGED <<text, activeTextEditor, hiddenLine, env>>
  /\ Frame

\* the files of the workspace change on disk
filesChange(i) ==
  /\ Subscribed
  /\ activated
  /\ i \in 1..Len(FsPool)
  /\ i # fs
  /\ env.files + env.editors < MaxEvents
  /\ env' = [env EXCEPT !.files = @ + 1]
  /\ fs' = i
  /\ last' = Hist("files")
  /\ notification' = "none"
  /\ run' = RunReset
  /\ UNCHANGED <<variant, activated, text, activeTextEditor, rendered, keyValueMap,
                 config, isEnabled, activeDecorations, hiddenLines, hiddenLine,
                 timers, loads, track, snap>>

-----------------------------------------------------------------------------
(* The program *)

Next ==
  \/ ActivateExt
  \/ ActivateProv
  \/ toggle
  \/ enable
  \/ disable
  \/ refreshExt
  \/ refreshProv
  \/ \E i \in 1..MaxLoads : resumeLoad(i)
  \/ \E editor \in Editors : onDidChangeActiveTextEditor(editor)
  \/ \E e \in Editors, t \in Texts : onDidChangeTextDocument(e, t)
  \/ \E off \in 0..Len(text[activeTextEditor]) :
       selectionExt(positionAt(text[activeTextEditor], off))
  \/ \E off \in 0..Len(text[activeTextEditor]) :
       selectionProv(positionAt(text[activeTextEditor], off))
  \/ timerFires
  \/ \E i \in 1..Len(FsPool) : filesChange(i)

Spec == Init /\ [][Next]_vars
SpecSnap == InitSnap /\ [][Next]_vars
SpecRun == InitRun /\ [][Next]_vars

\* deactivation: VS Code disposes context.subscriptions, the commands and the
\* handlers with keyLensProvider.dispose(), which disposes the decoration type
\* and with it every decoration of the type. Pending setTimeout callbacks and
\* the continuations of loads are not among the subscriptions; what
\* setDecorations is called with afterwards is still recorded in rendered
dispose ==
  /\ activated
  /\ ~disposed
  /\ disposed' = TRUE
  /\ rendered' = [e \in Editors |-> {}]
  /\ last' = Hist("dispose")
  /\ UNCHANGED <<text, activeTextEditor, activeDecorations, hiddenLines,
                 hiddenLine, timers, env, input, output>>
  /\ Frame

NextDispose ==
  \/ Next
  \/ dispose

\* the program with its deactivation
SpecDispose == Init /\ [][NextDispose]_vars

\* extension.ts alone, under the scheduling of the event loop: a callback of
\* setTimeout that is due is run
InitTimer == Init /\ variant = "ext"

NextTimer ==
  \/ ActivateExt
  \/ toggle
  \/ refreshExt
  \/ \E editor \in Editors : onDidChangeActiveTextEditor(editor)
  \/ \E e \in Editors, t \in Texts : onDidChangeTextDocument(e, t)
  \/ \E off \in 0..Len(text[activeTextEditor]) :
       selectionExt(positionAt(text[activeTextEditor], off))
  \/ timerFires
  \/ \E i \in 1..Len(FsPool) : filesChange(i)

SpecTimer == InitTimer /\ [][NextTimer]_vars /\ WF_vars(timerFires)

-----------------------------------------------------------------------------
(* What the properties speak of *)

\* the handler that ran last ended with updateDecorations for the active editor
UpdateRan ==
  \/ last.op \in {"enable", "editor", "timer"}
  \/ last.op \in {"activate", "refresh", "load"} /\ last.done
  \/ last.op = "selection" /\ (variant = "prov" \/ last.hit)

\* the preconditions of updateDecorations hold for the active editor
Applies == Scans(variant, activeTextEditor, isEnabled, keyValueMap, config)

\* the scan of the active document against the dictionary, the lines of
\* hidden left out
ScanOf(hidden) ==
  {d \in Matches(text[activeTextEditor], keyValueMap) : LineOf(d) \notin hidden}

\* a whole scan of the active document: its placements, none when a
\* precondition of updateDecorations fails
Placements(hidden) == IF Applies THEN ScanOf(hidden) ELSE {}

\* the files the patterns match, pattern after pattern
RECURSIVE MatchedFrom(_, _, _)
MatchedFrom(disk, patterns, i) ==
  IF i > Len(patterns) THEN <<>>
  ELSE glob(disk, patterns[i]) \o MatchedFrom(disk, patterns, i + 1)

\* the files a load of this workspace reads, in the order it reads them
SourceFiles(v, disk) ==
  IF ~disk.folder \/ disk.config.k # "json" \/ disk.config.v.null THEN <<>>
  ELSE IF v = "ext" THEN disk.config.v.paths
  ELSE MatchedFrom(disk, disk.config.v.paths, 1)

\* the flattened contents of a file that exists and parses
Good(disk, path) == existsSync(disk, path) /\ disk.files[path].k = "json"
Flat(disk, path) == flattenObject(disk.files[path].v, <<>>, EmptyMap)

\* the dictionary of those files: every key of a good file, with the value
\* of the last good file that defines it
ExpectedDictionary(v, disk) ==
  LET fl == SourceFiles(v, disk)
      good == {i \in 1..Len(fl) : Good(disk, fl[i])}
      defs(k) == {i \in good : k \in DOMAIN Flat(disk, fl[i])}
      lastOf(k) == CHOOSE i \in defs(k) : \A j \in defs(k) : j <= i
  IN [k \in UNION {DOMAIN Flat(disk, fl[i]) : i \in good}
        |-> Flat(disk, fl[lastOf(k)])[k]]

-----------------------------------------------------------------------------
(* C1 *)

\* C1: whenever the engine is disabled, no placement is rendered on any open
\* document. Refuted: disable() and toggle() clear the active editor only.
C1_NoPlacementWhileDisabled ==
  ~isEnabled => \A e \in Editors : rendered[e] = {}

-----------------------------------------------------------------------------
(* C2 *)

\* C2: when updateDecorations ran for the active document and one of its
\* preconditions failed, nothing is rendered on the document and the
\* last-computed list is empty; so too after a refresh that found no readable
\* configuration. Refuted: the early returns clear nothing.
C2_FailedPreconditionClears ==
  /\ UpdateRan /\ ~Applies =>
       rendered[activeTextEditor] = {} /\ activeDecorations = {}
  /\ last.refresh /\ last.done /\ Disk.config.k # "json" =>
       rendered[activeTextEditor] = {}

-----------------------------------------------------------------------------
(* C3 *)

\* the step is a selection inside a placement: hideDecorationsForLine ran
HideStep == last'.op = "selection" /\ last'.hit
\* the step is a selection of the provider outside every placement:
\* clearHiddenLines ran
ClearStep == variant = "prov" /\ last'.op = "selection" /\ ~last'.hit

\* C3: with the engine enabled and the dictionary loaded, after any earlier
\* hides, hideDecorationsForLine(L) removes the placements of line L and
\* leaves every other placement as it was just before the call, so a line
\* hidden earlier stays hidden; clearHiddenLines() then leaves the full
\* unsuppressed scan. Refuted in the provider, which keeps one hidden line:
\* its second hide shows the line of the first again.
C3_HideRemovesOnlyItsLine ==
  [][ isEnabled /\ Applies =>
        /\ HideStep =>
             rendered'[activeTextEditor] =
               {d \in rendered[activeTextEditor] : LineOf(d) # last'.line}
        /\ ClearStep => rendered'[activeTextEditor] = ScanOf({})
    ]_vars

-----------------------------------------------------------------------------
(* C4 *)

\* the step turns the engine on again
EnableStep == ~isEnabled /\ last'.op = "enable"

\* what an enabled engine renders on the active document under hidden
PlacementsIfEnabled(hidden) ==
  IF Scans(variant, activeTextEditor, TRUE, keyValueMap, config)
    THEN ScanOf(hidden) ELSE {}

-----------------------------------------------------------------------------
(* C5 *)

\* C5: when refresh() has shown Key-Lens refreshed, no line is hidden and what
\* is rendered on the active document is the full scan of its text against
\* the dictionary, whatever events came while the load was awaited. Refuted:
\* a selection handled during the await hides a line again, and the early
\* returns of updateDecorations leave the earlier placements.
C5_RefreshedMeansFullScan ==
  last.refresh /\ last.done /\ notification = "refreshed" =>
    /\ Hidden = {}
    /\ rendered[activeTextEditor] = Placements({})

-----------------------------------------------------------------------------
(* C6 *)

\* the dictionary one load of the files on disk builds when no other runs
SingleLoad == ReadAllInto(Disk, SourceFiles(variant, Disk), 1, EmptyMap)

\* C6: two refreshes with nothing but their loads between and after them,
\* the second started after or before the first has completed, end
\* with the dictionary one refresh builds from the files on disk, no line
\* hidden, and on the active document the full scan against that dictionary
\* (what was rendered before them when a precondition of updateDecorations
\* fails): the state a single refresh ends in.
C6_TwoRefreshesEndAsOne ==
  run.n = 2 /\ loads = <<>> =>
    /\ keyValueMap = SingleLoad
    /\ Hidden = {}
    /\ rendered = updateDecorations(variant, activeTextEditor, isEnabled,
                    SingleLoad, config, {}, text, activeDecorations,
                    run.before).rendered
    /\ notification = "refreshed"

\* two overlapping refreshes have ended, with placements rendered
C6_OverlappingRefreshesEnded ==
  /\ run.n = 2 /\ run.overlap
  /\ loads = <<>>
  /\ keyValueMap # EmptyMap
  /\ rendered[activeTextEditor] # {}

-----------------------------------------------------------------------------
(* C7 *)

\* C7: after a selection change with the cursor inside a last-computed
\* placement the cursor's line is hidden, and after one with the cursor inside
\* none no line is hidden. Refuted in extension.ts, whose handler does
\* nothing for a cursor outside every placement.
C7_SelectionOutsideClears ==
  last.op = "selection" =>
    /\ last.hit => last.line \in Hidden
    /\ ~last.hit => Hidden = {}

-----------------------------------------------------------------------------
(* C8 *)

\* C8: when a load has completed, the files unchanged since it began, the
\* dictionary holds the flattened contents of the configured files that exist
\* and parse, merged in the configured order with the later file winning a
\* shared key, a missing or unparsable file left out. Refuted in the
\* provider, where a second load resets the dictionary under the first.
C8_LoadedDictionaryIsTheMerge ==
  last.done /\ last.fresh => keyValueMap = ExpectedDictionary(variant, Disk)

-----------------------------------------------------------------------------
(* C9 *)

\* C9: when a load has completed, the files unchanged since it began, the
\* dictionary is empty if there is no workspace folder or no readable
\* configuration, and every key it holds is defined by a file that load
\* read. Refuted in the provider, where a load begun earlier writes its keys
\* after the later load has emptied the dictionary.
C9_NoKeySurvivesALoad ==
  last.done /\ last.fresh =>
    /\ SourceFiles(variant, Disk) = <<>> => keyValueMap = EmptyMap
    /\ \A k \in DOMAIN keyValueMap : k \in DOMAIN ExpectedDictionary(variant, Disk)

-----------------------------------------------------------------------------
(* C10 *)

\* C10: a refresh whose load failed shows an error notification and not
\* Key-Lens refreshed. Refuted: the load swallows every error and refresh
\* always shows Key-Lens refreshed.
C10_FailedLoadIsNotRefreshed ==
  last.refresh /\ last.done /\ last.failed => notification # "refreshed"

-----------------------------------------------------------------------------
(* The functions of the engine, applied on their own *)

\* the longest document text scanned on its own
MaxTextLen == 6

\* the characters of those texts: the three quotes, a letter, and a
\* character that is special in a regular expression
ScanAlphabet == {"'", "\"", Backtick, "a", "."}
ScanTexts == UNION {[1..n -> ScanAlphabet] : n \in 0..MaxTextLen}

\* the dictionaries they are scanned against
ScanDictionaries ==
  { (<<"a">> :> <<"1">>),
    (<<"a">> :> <<"1">>) @@ (<<".">> :> <<"2">>) }

ScanInputs ==
  {[kind |-> "scan", text |-> t, kvm |-> d] : t \in ScanTexts, d \in ScanDictionaries}

\* the scan loops of updateDecorations run on input, no line hidden
ApplyScan ==
  /\ input.kind = "scan"
  /\ output = NoArg
  /\ output' = [kind |-> "scan",
                decorations |-> Scan(input.text, input.kvm, {})]
  /\ UNCHANGED <<variant, activated, fs, text, activeTextEditor, rendered,
                 keyValueMap, config, isEnabled, activeDecorations, hiddenLines,
                 hiddenLine, timers, loads, notification, last, env, track, snap,
                 run, disposed, input>>

\* the deepest nesting of objects in a value flattened on its own
MaxDepth == 3

\* the values flattenObject stores without descending, or should
FlatLeaves ==
  {JNull, JNum(<<"1">>), JStr(<<"x">>), JArr(<<JNum(<<"1">>), JNum(<<"2">>)>>)}

\* the parsed JSON values of nesting d at most: a leaf, or an object with the
\* member a, or with the members a and b
RECURSIVE JsonValues(_)
JsonValues(d) ==
  IF d = 0 THEN FlatLeaves
  ELSE LET sub == JsonValues(d - 1) IN
         FlatLeaves
           \cup {JObj(<< <<(<<"a">>), v>> >>) : v \in sub}
           \cup {JObj(<< <<(<<"a">>), v>>, <<(<<"b">>), w>> >>) :
                   v \in sub, w \in FlatLeaves}

FlattenInputs == {[kind |-> "flatten", value |-> v] : v \in JsonValues(MaxDepth)}

\* this.flattenObject(data, "", this.keyValueMap) run on input, the
\* dictionary empty
ApplyFlatten ==
  /\ input.kind = "flatten"
  /\ output = NoArg
  /\ output' = [kind |-> "flatten",
                map |-> flattenObject(input.value, <<>>, EmptyMap)]
  /\ UNCHANGED <<variant, activated, fs, text, activeTextEditor, rendered,
                 keyValueMap, config, isEnabled, activeDecorations, hiddenLines,
                 hiddenLine, timers, loads, notification, last, env, track, snap,
                 run, disposed, input>>

\* the file names and the patterns shouldApplyToFile of extension.ts is
\* applied to
FilterNames ==
  { <<"a", ".", "t", "s">>, <<"a", ".", "t", "s", "x">>, <<"x", "t", "s">>,
    <<"b", ".", "j", "s">>, <<"t", "s">> }
FilterPatterns ==
  { <<"*", ".", "t", "s">>, <<"a", ".", "t", "s">>, <<"*", ".", "j", "s">>,
    <<"*">> }
FilterConfigs ==
  {NullConfig, Config(<<>>, NotSet, NotSet)}
    \cup {Config(<<>>, Items(<<p>>), NotSet) : p \in FilterPatterns}
    \cup {Config(<<>>, Items(<<p, q>>), NotSet) : p \in FilterPatterns, q \in FilterPatterns}

FilterInputs ==
  {[kind |-> "filter", cfg |-> c, name |-> n] : c \in FilterConfigs, n \in FilterNames}

\* shouldApplyToFile(fileName) of extension.ts run on input
ApplyFilter ==
  /\ input.kind = "filter"
  /\ output = NoArg
  /\ output' = [kind |-> "filter",
                applies |-> shouldApplyToFileExt(input.cfg, input.name)]
  /\ UNCHANGED <<variant, activated, fs, text, activeTextEditor, rendered,
                 keyValueMap, config, isEnabled, activeDecorations, hiddenLines,
                 hiddenLine, timers, loads, notification, last, env, track, snap,
                 run, disposed, input>>

\* a constructed engine that is never activated, and an argument for one of
\* its functions
InitFunctions ==
  /\ variant = "ext"
  /\ activated = FALSE
  /\ fs = 1
  /\ text = [e \in Editors |-> InitialText]
  /\ activeTextEditor = "e1"
  /\ rendered = [e \in Editors |-> {}]
  /\ keyValueMap = EmptyMap
  /\ config = NullConfig
  /\ isEnabled = TRUE
  /\ activeDecorations = {}
  /\ hiddenLines = {}
  /\ hiddenLine = {}
  /\ timers = <<>>
  /\ loads = <<>>
  /\ notification = "none"
  /\ last = Hist("new")
  /\ env = [files |-> 0, editors |-> 0]
  /\ track = "none"
  /\ snap = NoSnap
  /\ run = NoRun
  /\ disposed = FALSE
  /\ input \in ScanInputs \cup FlattenInputs \cup FilterInputs
  /\ output = NoArg

NextFunctions ==
  \/ ApplyScan
  \/ ApplyFlatten
  \/ ApplyFilter

SpecFunctions == InitFunctions /\ [][NextFunctions]_vars

-----------------------------------------------------------------------------
(* C11 *)

\* the key k stands in t at offset off (from 0) between two quote characters
Quoted(t, k, off) ==
  /\ off + Len(k) + 2 <= Len(t)
  /\ t[off + 1] \in Quotes
  /\ t[off + Len(k) + 2] \in Quotes
  /\ SubSeq(t, off + 2, off + Len(k) + 1) = k
\* ... and the two quote characters are the same
Occurs(t, k, off) == Quoted(t, k, off) /\ t[off + Len(k) + 2] = t[off + 1]

\* the span of that occurrence
Span(t, k, off) == <<positionAt(t, off), positionAt(t, off + Len(k) + 2)>>

\* the scan of input placed the occurrence of k at off
Placed(k, off) ==
  \E d \in output.decorations :
    d.range = Span(input.text, k, off) /\ d.contentText = input.kvm[k]

\* the offsets of a text
Offsets(t) == 0..Len(t)

\* C11 (as stated): no line hidden, every occurrence of a dictionary key
\* between two identical quote characters has a placement of exactly its
\* span, occurrences that share a quote character with a neighbouring
\* occurrence of the same key included. Refuted: a global regex resumes after
\* the match it found, so the second of two occurrences sharing a quote is
\* never matched.
C11_EveryOccurrencePlaced ==
  output.kind = "scan" =>
    \A k \in DOMAIN input.kvm : \A off \in Offsets(input.text) :
      Occurs(input.text, k, off) => Placed(k, off)

\* C11 (amended): no line hidden, every occurrence of a dictionary key between
\* two identical quote characters has a placement of exactly its span unless
\* it overlaps an earlier occurrence of the same key that has one: the
\* occurrences of one key are matched from left to right without overlap, so
\* of two occurrences sharing a quote character only the first is placed.
C11_EveryOccurrencePlacedOrOverlapped ==
  output.kind = "scan" =>
    \A k \in DOMAIN input.kvm : \A off \in Offsets(input.text) :
      Occurs(input.text, k, off) =>
        \/ Placed(k, off)
        \/ \E before \in 0..(off - 1) :
             /\ Occurs(input.text, k, before)
             /\ Placed(k, before)
             /\ before + Len(k) + 2 > off

\* a text with two occurrences of a key sharing a quote was scanned: the
\* first is placed, the second is not
C11_SharedQuoteScanned ==
  /\ output.kind = "scan"
  /\ \E k \in DOMAIN input.kvm : \E off \in Offsets(input.text) :
       /\ Occurs(input.text, k, off)
       /\ Occurs(input.text, k, off + Len(k) + 1)
       /\ Placed(k, off)
       /\ ~Placed(k, off + Len(k) + 1)

-----------------------------------------------------------------------------
(* C12 *)

\* C12: every computed placement spans one quote character, a dictionary key
\* verbatim (a character special in a regular expression standing for itself
\* only) and the same quote character again, and carries the value of that
\* key; a key between two different quote characters has no placement of
\* that span.
C12_PlacementsAreQuotedKeys ==
  output.kind = "scan" =>
    /\ \A d \in output.decorations :
         \E k \in DOMAIN input.kvm : \E off \in Offsets(input.text) :
           /\ Occurs(input.text, k, off)
           /\ d.range = Span(input.text, k, off)
           /\ d.contentText = input.kvm[k]
    /\ \A k \in DOMAIN input.kvm : \A off \in Offsets(input.text) :
         Quoted(input.text, k, off) /\ ~Occurs(input.text, k, off) =>
           \A d \in output.decorations : d.range # Span(input.text, k, off)

\* a text was scanned that holds the key "." between two identical quotes and
\* a letter between two different ones, against a dictionary with both keys
C12_SpecialKeyAndMismatchScanned ==
  /\ output.kind = "scan"
  /\ DOMAIN input.kvm = {<<"a">>, <<".">>}
  /\ \E off \in Offsets(input.text) :
       Occurs(input.text, <<".">>, off) /\ Placed(<<".">>, off)
  /\ \E off \in Offsets(input.text) :
       Quoted(input.text, <<"a">>, off) /\ ~Occurs(input.text, <<"a">>, off)

\* ---------------------------------------------------------------------------
\* C13
\* ---------------------------------------------------------------------------

\* the entries of a dictionary, as pairs of key and value
Pairs(map) == {<<k, map[k]>> : k \in DOMAIN map}

\* one entry per leaf under the dot-joined path of object keys; an array, null
\* or a scalar is a leaf whatever its depth
RECURSIVE LeafEntries(_, _)
LeafEntries(v, path) ==
  IF v.t = "obj"
    THEN UNION {LeafEntries(v.kv[i][2],
                            IF path # <<>> THEN path \o <<".">> \o v.kv[i][1]
                            ELSE v.kv[i][1]) : i \in DOMAIN v.kv}
    ELSE {<<path, String(v)>>}

\* C13: flattening a parsed JSON object or array gives exactly one entry per
\* leaf, keyed by the dot-joined path of object keys to it; an array is a leaf
\* at any depth, the top level included, and is stored stringified at its own
\* key.
C13_OneEntryPerLeaf ==
  (output.kind = "flatten" /\ input.value.t \in {"obj", "arr"})
    => Pairs(output.map) = LeafEntries(input.value, <<>>)

\* the same below the top level: the members of a top-level object
C13_OneEntryPerLeafOfAnObject ==
  (output.kind = "flatten" /\ input.value.t = "obj")
    => Pairs(output.map) = LeafEntries(input.value, <<>>)

\* ---------------------------------------------------------------------------
\* C14
\* ---------------------------------------------------------------------------

\* the placements the active editor shows
RenderedOnActive ==
  IF activeTextEditor = NoEditor THEN {} ELSE rendered[activeTextEditor]

\* C14: in every reachable state with the engine enabled, no placement
\* rendered on the active document lies on a suppressed line, whatever the
\* events before and whether or not updateDecorations returned early.
C14_NothingRenderedOnASuppressedLine ==
  isEnabled => \A d \in RenderedOnActive : LineOf(d) \notin Hidden

\* ---------------------------------------------------------------------------
\* C15
\* ---------------------------------------------------------------------------

\* the line numbers of the documents
Lines == {p[1] : p \in UNION {Positions(t) : t \in Texts}}

\* line is not suppressed and, with the engine enabled, its placements are
\* rendered on the active document
ShownAgain(line) ==
  /\ line \notin hiddenLines
  /\ isEnabled =>
       {d \in Placements({}) : LineOf(d) = line} \subseteq RenderedOnActive

\* the state after a click on a placement of line in extension.ts
ClickHid(line) ==
  variant = "ext" /\ last.op = "selection" /\ last.hit /\ last.line = line

\* C15: in extension.ts every hide of a line by a click on one of its
\* placements schedules exactly one expiry, and is eventually followed by a
\* state where the line is not suppressed and, if the engine is enabled, its
\* placements are rendered again.
C15_ClickHideExpires ==
  /\ [][(variant = "ext" /\ HideStep) => timers' = Append(timers, last'.line)]_vars
  /\ \A line \in Lines : ClickHid(line) ~> ShownAgain(line)

\* the expiry of a click fired with the engine enabled and put the placements
\* of its line back
C15_ExpiryShowedTheLine ==
  /\ variant = "ext"
  /\ last.op = "timer"
  /\ isEnabled
  /\ ShownAgain(last.line)
  /\ \E d \in RenderedOnActive : LineOf(d) = last.line

\* ---------------------------------------------------------------------------
\* C16
\* ---------------------------------------------------------------------------

\* the step is the callback of a timer
ExpiryStep == last'.op = "timer"

\* C16: in extension.ts a pending expiry is never cancelled or replaced: a
\* click on a placement adds one expiry for its line and keeps the pending
\* ones, no other event touches the pending expiries, and each expiry that
\* fires is the oldest one and removes its line from the suppression set,
\* whether or not a later expiry for the same line is pending.
C16_ExpiriesAreNeverCancelled ==
  [][variant = "ext" =>
       /\ HideStep => timers' = Append(timers, last'.line)
       /\ ExpiryStep =>
            /\ timers # <<>>
            /\ last'.line = Head(timers)
            /\ timers' = Tail(timers)
            /\ hiddenLines' = hiddenLines \ {Head(timers)}
       /\ ~(HideStep \/ ExpiryStep) => timers' = timers]_vars

\* a line was clicked twice before its first expiry; the first expiry has
\* fired and the line is shown while the second expiry is still pending
C16_FirstExpiryShowedTheLineEarly ==
  /\ variant = "ext"
  /\ last.op = "timer"
  /\ \E i \in DOMAIN timers : timers[i] = last.line
  /\ last.line \notin hiddenLines
  /\ isEnabled
  /\ \E d \in RenderedOnActive : LineOf(d) = last.line

\* ---------------------------------------------------------------------------
\* C17
\* ---------------------------------------------------------------------------

\* a load is between its reset of the dictionary and its end
LoadInProgress == loads # <<>>

\* C17: every scan reads a dictionary that is the complete result of one
\* finished load: when updateDecorations has run to its scan, no load is
\* between emptying the dictionary and its end, so the scan saw neither an
\* emptied nor a partly repopulated dictionary.
C17_ScansReadAFinishedLoad ==
  (UpdateRan /\ Applies) => ~LoadInProgress

\* ---------------------------------------------------------------------------
\* C18
\* ---------------------------------------------------------------------------

\* the pattern p from index i on, read as a glob, matches the whole of s from
\* index j on: * is any run of characters, every other character is itself
RECURSIVE GlobMatch(_, _, _, _)
GlobMatch(p, i, s, j) ==
  IF i > Len(p) THEN j > Len(s)
  ELSE IF p[i] = "*"
    THEN \/ GlobMatch(p, i + 1, s, j)
         \/ j <= Len(s) /\ GlobMatch(p, i, s, j + 1)
  ELSE j <= Len(s) /\ p[i] = s[j] /\ GlobMatch(p, i + 1, s, j + 1)

\* no filePatterns are configured, or the whole name matches one of them
GlobAccepts(cfg, name) ==
  \/ cfg.null
  \/ ~cfg.filePatterns.set
  \/ \E i \in 1..Len(cfg.filePatterns.items) :
       GlobMatch(cfg.filePatterns.items[i], 1, name, 1)

\* C18: shouldApplyToFile of extension.ts is true exactly when no filePatterns
\* are configured or the whole file name matches at least one pattern read as
\* a glob, so that *.ts rejects a.tsx and xts.
C18_FilterIsAWholeNameGlob ==
  output.kind = "filter" => (output.applies <=> GlobAccepts(input.cfg, input.name))

\* one half of it: a name the glob accepts is never rejected
C18_GlobAcceptedIsApplied ==
  (output.kind = "filter" /\ GlobAccepts(input.cfg, input.name)) => output.applies

\* ---------------------------------------------------------------------------
\* C19
\* ---------------------------------------------------------------------------

\* C19: activeDecorations always equals the placements rendered on the active
\* document: it is empty after a disable or a toggle-off, and it is
\* recomputed when the active document changes.
C19_ActiveDecorationsAreTheRendered ==
  activated => activeDecorations = RenderedOnActive

\* ---------------------------------------------------------------------------
\* C20
\* ---------------------------------------------------------------------------

\* the last step was a callback that ran updateDecorations to its call of
\* setDecorations
CallbackApplied == last.op \in {"timer", "load"} /\ UpdateRan /\ Applies

\* C20: after dispose() the engine never again applies or clears decorations:
\* no expiry scheduled before dispose and no load in flight at dispose leads
\* to a call of setDecorations afterwards.
C20_NothingAppliedAfterDispose ==
  disposed => ~CallbackApplied

====
